---- MODULE Spec2Model ----
(***************************************************************************)
(* A model of src/src/generator.py: the placeholder renderer, the snippet  *)
(* filter/aggregator, the page assembler and the page generation           *)
(* orchestrator (generate_page).                                           *)
(*                                                                         *)
(* A Python str is a sequence of one-character strings.  A Python value of *)
(* a record (a database row) is one of None, an int or a str, as in the    *)
(* data model of the specification; it is a record [t, i, s] whose tag t   *)
(* says which.  A Python dict is a function from keys (strs) to values.    *)
(***************************************************************************)
EXTENDS Integers, Sequences, FiniteSets, TLC

VARIABLES
    call,       \* SpecPure: the function applied, its arguments, what it returned
    env,        \* what a run is given: arguments, environment variables, the files at its start
    pc,         \* the position of the run inside main and generate_page
    loc,        \* the local variables of generate_page
    fs,         \* the files: absolute path -> content
    db,         \* the connection and its cursor: "none", "open" or "closed"
    queries,    \* the statements executed on the cursor, in order
    exc,        \* the exception in flight, or NoExc
    main,       \* the command: its arguments, and how main ended
    first       \* what the first of two runs of the command fetched and wrote

vars == <<call, env, pc, loc, fs, db, queries, exc, main, first>>
run == <<env, pc, loc, fs, db, queries, exc, main, first>>

(***************************************************************************)
(* Bounds of the model.                                                    *)
(***************************************************************************)
MaxPieces == 4          \* a template is at most this many pieces
MaxActiveStrLen == 3    \* an `active` string is at most this many characters
MaxRecords == 3         \* render_snippets is given at most this many records
MaxSkelPieces == 3      \* a skeleton is at most this many pieces
MaxRows == 2            \* the snippet query returns at most this many rows

(***************************************************************************)
(* Python values.                                                          *)
(***************************************************************************)
None == [t |-> "none", i |-> 0, s |-> <<>>]
IntV(n) == [t |-> "int", i |-> n, s |-> <<>>]
StrV(x) == [t |-> "str", i |-> 0, s |-> x]

\* What a call returns: a value, or the class of the exception it raised.
Ok(v) == [raised |-> "None", value |-> v]
Raise(cls, msg) == [raised |-> cls, value |-> msg]

Lower == {"a","b","c","d","e","f","g","h","i","j","k","l","m",
          "n","o","p","q","r","s","t","u","v","w","x","y","z"}
Upper == {"A","B","C","D","E","F","G","H","I","J","K","L","M",
          "N","O","P","Q","R","S","T","U","V","W","X","Y","Z"}
Digits == {"0","1","2","3","4","5","6","7","8","9"}
Whitespace == {" ", "\n", "\t", "\r"}

DigitVal(c) ==
    CASE c = "0" -> 0 [] c = "1" -> 1 [] c = "2" -> 2 [] c = "3" -> 3
      [] c = "4" -> 4 [] c = "5" -> 5 [] c = "6" -> 6 [] c = "7" -> 7
      [] c = "8" -> 8 [] c = "9" -> 9

DigitChar(d) ==
    CASE d = 0 -> "0" [] d = 1 -> "1" [] d = 2 -> "2" [] d = 3 -> "3"
      [] d = 4 -> "4" [] d = 5 -> "5" [] d = 6 -> "6" [] d = 7 -> "7"
      [] d = 8 -> "8" [] d = 9 -> "9"

\* dict.get(key): the value, None when the key is absent.
DictGet(data, key) == IF key \in DOMAIN data THEN data[key] ELSE None

(***************************************************************************)
(* str(value) and int(value) of the Python builtins, on None, int and str. *)
(***************************************************************************)
RECURSIVE NatStr(_)
NatStr(n) == IF n < 10 THEN <<DigitChar(n)>>
             ELSE NatStr(n \div 10) \o <<DigitChar(n % 10)>>

PyStr(value) ==
    CASE value.t = "str" -> value.s
      [] value.t = "int" -> IF value.i < 0 THEN <<"-">> \o NatStr(-value.i)
                            ELSE NatStr(value.i)
      [] value.t = "none" -> <<"N","o","n","e">>

RECURSIVE LStrip(_)
LStrip(s) == IF s # <<>> /\ s[1] \in Whitespace THEN LStrip(Tail(s)) ELSE s

RECURSIVE RStrip(_)
RStrip(s) == IF s # <<>> /\ s[Len(s)] \in Whitespace
             THEN RStrip(SubSeq(s, 1, Len(s) - 1)) ELSE s

\* The digits of an int literal, read left to right: acc is the value so far,
\* prev the previous character ("" at the start).  -1 when it is no literal:
\* empty, another character, or an underscore not between two digits.
RECURSIVE ParseDigits(_, _, _)
ParseDigits(s, acc, prev) ==
    IF s = <<>> THEN (IF prev \in Digits THEN acc ELSE -1)
    ELSE IF s[1] \in Digits THEN ParseDigits(Tail(s), 10 * acc + DigitVal(s[1]), s[1])
    ELSE IF s[1] = "_" /\ prev \in Digits THEN ParseDigits(Tail(s), acc, "_")
    ELSE -1

\* int(value): Ok(n), or the exception int() raises.
PyInt(value) ==
    CASE value.t = "int" -> Ok(value.i)
      [] value.t = "none" -> Raise("TypeError", "int() argument must be a string or a number")
      [] value.t = "str" ->
            LET st == RStrip(LStrip(value.s))
                neg == st # <<>> /\ st[1] = "-"
                body == IF st # <<>> /\ st[1] \in {"-", "+"} THEN Tail(st) ELSE st
                n == ParseDigits(body, 0, "")
            IN  IF n < 0 THEN Raise("ValueError", "invalid literal for int()")
                ELSE Ok(IF neg THEN -n ELSE n)

(***************************************************************************)
(* PLACEHOLDER_PATTERN = re.compile(r"%%([a-zA-Z0-9_]+)%%") and its sub().  *)
(***************************************************************************)
IdentChars == Lower \cup Upper \cup Digits \cup {"_"}

\* The end of the run of [a-zA-Z0-9_] that starts at j.
RECURSIVE IdentRunEnd(_, _)
IdentRunEnd(s, j) ==
    IF j <= Len(s) /\ s[j] \in IdentChars THEN IdentRunEnd(s, j + 1) ELSE j

\* The position after the match of the pattern that starts at i; 0 when the
\* pattern does not match at i.  The class excludes "%", so the greedy run is
\* the only candidate for group 1.
MatchEnd(s, i) ==
    IF i + 1 <= Len(s) /\ s[i] = "%" /\ s[i + 1] = "%"
    THEN LET j == IdentRunEnd(s, i + 2)
         IN  IF j > i + 2 /\ j + 1 <= Len(s) /\ s[j] = "%" /\ s[j + 1] = "%"
             THEN j + 2 ELSE 0
    ELSE 0

\* A variant of replace that leaves the token of an absent or null field in place.
replace_keep_missing(field, data) ==
    LET value == DictGet(data, field)
    IN  IF value = None THEN <<"%","%">> \o field \o <<"%","%">> ELSE PyStr(value)

\* The callback of render_snippet: the field's value, "" when absent or None.
replace(field, data) ==
    LET value == DictGet(data, field)
    IN  IF value = None THEN <<>> ELSE PyStr(value)

\* PLACEHOLDER_PATTERN.sub(replace, s) from position pos on: the matches are
\* found left to right, each search resuming after the previous match.
RECURSIVE PatternSub(_, _, _)
PatternSub(s, pos, data) ==
    IF pos > Len(s) THEN <<>>
    ELSE LET e == MatchEnd(s, pos)
         IN  IF e # 0
             THEN replace(SubSeq(s, pos + 2, e - 3), data) \o PatternSub(s, e, data)
             ELSE <<s[pos]>> \o PatternSub(s, pos + 1, data)

\* A variant of render_snippet that scans its own output once more.
render_snippet_rescan(snippet_template, data) ==
    PatternSub(PatternSub(snippet_template, 1, data), 1, data)

render_snippet(snippet_template, data) == PatternSub(snippet_template, 1, data)

(***************************************************************************)
(* _is_snippet_active and render_snippets.                                 *)
(***************************************************************************)
ActiveKey == <<"a","c","t","i","v","e">>

\* A variant of _is_snippet_active whose except clause names ValueError alone.
_is_snippet_active_value_error_only(snippet) ==
    IF ActiveKey \notin DOMAIN snippet THEN Ok(FALSE)
    ELSE LET r == PyInt(snippet[ActiveKey])
         IN  IF r.raised = "None" THEN Ok(r.value # 0)
             ELSE IF r.raised \in {"ValueError"} THEN Ok(FALSE)
             ELSE r

\* _is_snippet_active: Ok(bool), or the exception that escapes it.
_is_snippet_active(snippet) ==
    IF ActiveKey \notin DOMAIN snippet THEN Ok(FALSE)
    ELSE LET r == PyInt(snippet[ActiveKey])
         IN  IF r.raised = "None" THEN Ok(r.value # 0)
             ELSE IF r.raised \in {"TypeError", "ValueError"} THEN Ok(FALSE)
             ELSE r

\* sep.join(list): the items with sep between each two.
RECURSIVE PyJoin(_, _, _, _)
PyJoin(sep, list, k, acc) ==
    IF k > Len(list) THEN acc
    ELSE PyJoin(sep, list, k + 1, IF k = 1 THEN list[k] ELSE acc \o sep \o list[k])

\* The loop of render_snippets from record k on: Ok(rendered_snippets), or the
\* exception that escaped _is_snippet_active.
RECURSIVE RenderLoop(_, _, _, _)
RenderLoop(snippet_template, snippets, k, rendered_snippets) ==
    IF k > Len(snippets) THEN Ok(rendered_snippets)
    ELSE LET a == _is_snippet_active(snippets[k])
         IN  IF a.raised # "None" THEN a
             ELSE IF ~a.value
             THEN RenderLoop(snippet_template, snippets, k + 1, rendered_snippets)
             ELSE RenderLoop(snippet_template, snippets, k + 1,
                     Append(rendered_snippets, render_snippet(snippet_template, snippets[k])))

\* A variant of render_snippets that ends every render with the separator.
render_snippets_trailing_sep(snippet_template, snippets) ==
    LET rs == RenderLoop(snippet_template, snippets, 1, <<>>)
    IN  IF rs.raised # "None" THEN rs
        ELSE Ok(PyJoin(<<>>, [k \in 1..Len(rs.value) |-> rs.value[k] \o <<"\n">>], 1, <<>>))

\* render_snippets: Ok(str), or the exception that escaped it.
render_snippets(snippet_template, snippets) ==
    LET rs == RenderLoop(snippet_template, snippets, 1, <<>>)
    IN  IF rs.raised # "None" THEN rs
        ELSE Ok(PyJoin(<<"\n">>, rs.value, 1, <<>>))

(***************************************************************************)
(* inject_snippets.                                                        *)
(***************************************************************************)
PLACEHOLDER_MARKER ==
    <<"-","-","-"," ","I","N","S","E","R","T"," ","S","N","I","P","P","E","T","S",
      " ","H","E","R","E"," ","-","-","-">>

\* s.find(sub, start): the first index >= start where sub occurs in s, 0 when none.
RECURSIVE PyFind(_, _, _)
PyFind(s, sub, start) ==
    IF start + Len(sub) - 1 > Len(s) THEN 0
    ELSE IF SubSeq(s, start, start + Len(sub) - 1) = sub THEN start
    ELSE PyFind(s, sub, start + 1)

\* s.replace(old, new) from position start on, count occurrences at most
\* (-1: all): each search resumes after the occurrence just replaced.
RECURSIVE PyReplace(_, _, _, _, _)
PyReplace(s, old, new, start, count) ==
    LET idx == IF count = 0 THEN 0 ELSE PyFind(s, old, start)
    IN  IF idx = 0 THEN SubSeq(s, start, Len(s))
        ELSE SubSeq(s, start, idx - 1) \o new
                \o PyReplace(s, old, new, idx + Len(old), IF count < 0 THEN count ELSE count - 1)

\* A variant of inject_snippets that replaces the first marker alone.
inject_snippets_first_only(skeleton, rendered_snippets) ==
    IF PyFind(skeleton, PLACEHOLDER_MARKER, 1) = 0
    THEN Raise("GenerationError", "Skeleton template missing placeholder marker")
    ELSE Ok(PyReplace(skeleton, PLACEHOLDER_MARKER, rendered_snippets, 1, 1))

\* A variant of inject_snippets that returns a skeleton without marker as it is.
inject_snippets_no_check(skeleton, rendered_snippets) ==
    Ok(PyReplace(skeleton, PLACEHOLDER_MARKER, rendered_snippets, 1, -1))

inject_snippets(skeleton, rendered_snippets) ==
    IF PyFind(skeleton, PLACEHOLDER_MARKER, 1) = 0
    THEN Raise("GenerationError", "Skeleton template missing placeholder marker")
    ELSE Ok(PyReplace(skeleton, PLACEHOLDER_MARKER, rendered_snippets, 1, -1))

(***************************************************************************)
(* Paths (pathlib.Path): a root flag and the components; a component is a  *)
(* sequence of name fragments, so that f"{page_name}.skel" is a component. *)
(***************************************************************************)
PathOf(root, parts) == [root |-> root, parts |-> parts]
NoPath == PathOf(FALSE, <<>>)
Cwd == PathOf(TRUE, <<(<<"cwd">>)>>)

\* a / b
Join(a, b) == IF b.root THEN b ELSE PathOf(a.root, a.parts \o b.parts)
\* The file a path names: a relative path is relative to the working directory.
Absolute(p) == Join(Cwd, p)
Exists(files, p) == Absolute(p) \in DOMAIN files

DEFAULT_TEMPLATES_DIR == PathOf(TRUE, <<(<<"repo">>), (<<"templates">>)>>)
DEFAULT_SNIPPET_TEMPLATE_NAME == PathOf(FALSE, <<(<<"snippet.html">>)>>)

(***************************************************************************)
(* load_db_config.  cfg_file is the configuration file the path resolves   *)
(* to: whether it exists, whether it has a [postgresql] section, and that  *)
(* section; environ is os.environ.  Configuration values are strs.         *)
(***************************************************************************)
ConfigKeys == {"host", "port", "dbname", "user", "password"}

EnvName(key) ==
    CASE key = "host" -> "DB_HOST" [] key = "port" -> "DB_PORT"
      [] key = "dbname" -> "DB_NAME" [] key = "user" -> "DB_USER"
      [] key = "password" -> "DB_PASSWORD"

NoConfig == [host |-> <<>>, port |-> 0, dbname |-> <<>>, user |-> <<>>, password |-> <<>>]

\* A variant of ConfigValues in which the file's value stands when both give one.
ConfigValues_file_first(cfg_file, environ) ==
    LET section == IF cfg_file.exists /\ cfg_file.has_section THEN cfg_file.section ELSE <<>>
        fromEnv == {k \in ConfigKeys : EnvName(k) \in DOMAIN environ}
    IN  [k \in (DOMAIN section) \cup fromEnv |->
            IF k \in DOMAIN section THEN section[k] ELSE environ[EnvName(k)]]

\* config_values after the file's section and the environment's overrides.
ConfigValues(cfg_file, environ) ==
    LET section == IF cfg_file.exists /\ cfg_file.has_section THEN cfg_file.section ELSE <<>>
        fromEnv == {k \in ConfigKeys : EnvName(k) \in DOMAIN environ}
    IN  [k \in (DOMAIN section) \cup fromEnv |->
            IF k \in fromEnv THEN environ[EnvName(k)] ELSE section[k]]

\* A variant of load_db_config that converts the port before it looks for
\* missing values.
load_db_config_port_first(cfg_file, environ) ==
    LET config_values == ConfigValues(cfg_file, environ)
        missing == {k \in ConfigKeys : k \notin DOMAIN config_values}
        port == IF "port" \in missing THEN Ok(0) ELSE PyInt(StrV(config_values["port"]))
    IN  IF port.raised = "ValueError"
        THEN Raise("GenerationError", "Invalid port number")
        ELSE IF missing # {}
        THEN Raise("GenerationError", "Missing database configuration values")
        ELSE Ok([host |-> config_values["host"], port |-> port.value,
                 dbname |-> config_values["dbname"], user |-> config_values["user"],
                 password |-> config_values["password"]])

load_db_config(cfg_file, environ) ==
    LET config_values == ConfigValues(cfg_file, environ)
        missing == {k \in ConfigKeys : k \notin DOMAIN config_values}
    IN  IF missing # {}
        THEN Raise("GenerationError", "Missing database configuration values")
        ELSE LET port == PyInt(StrV(config_values["port"]))
             IN  IF port.raised = "ValueError"
                 THEN Raise("GenerationError", "Invalid port number")
                 ELSE IF port.raised # "None" THEN port
                 ELSE Ok([host |-> config_values["host"], port |-> port.value,
                          dbname |-> config_values["dbname"], user |-> config_values["user"],
                          password |-> config_values["password"]])

(***************************************************************************)
(* Template files.                                                         *)
(***************************************************************************)
resolve_templates_dir(environ) ==
    IF "TEMPLATES_DIR" \in DOMAIN environ /\ environ["TEMPLATES_DIR"] # NoPath
    THEN environ["TEMPLATES_DIR"] ELSE DEFAULT_TEMPLATES_DIR

\* A variant of resolve_snippet_template_path that does not look for the
\* candidate in the working directory.
resolve_snippet_template_path_no_exists(snippet_template, templates_dir, files) ==
    LET candidate == snippet_template
    IN  IF candidate.root THEN candidate ELSE Join(templates_dir, candidate)

resolve_snippet_template_path(snippet_template, templates_dir, files) ==
    LET candidate == snippet_template
    IN  IF candidate.root \/ Exists(files, candidate) THEN candidate
        ELSE Join(templates_dir, candidate)

\* A variant of load_file that reads a missing file as an empty one.
load_file_missing_is_empty(files, path) ==
    IF Exists(files, path) THEN Ok(files[Absolute(path)]) ELSE Ok(<<>>)

load_file(files, path) ==
    IF Exists(files, path) THEN Ok(files[Absolute(path)])
    ELSE Raise("GenerationError", "Required template file not found")

SkeletonPath(templates_dir, page_name) ==
    Join(templates_dir, PathOf(FALSE, <<(<<page_name, ".skel">>)>>))

(***************************************************************************)
(* The statements of fetch_page and fetch_snippets, and what the data      *)
(* source may answer.  The data source is outside the program: a statement *)
(* is answered by any rows that satisfy it.                                *)
(***************************************************************************)
PageIdKey == <<"p","a","g","e","_","i","d">>
PageNameKey == <<"p","a","g","e","_","n","a","m","e">>
SnippetIdKey == <<"s","n","i","p","p","e","t","_","i","d">>

\* A variant of fetch_snippets_sql without its ORDER BY.
fetch_snippets_sql_unordered(page_id, conn) ==
    [table |-> "tlinq.trip_snippet", where |-> "page_id", param |-> page_id,
     order_by |-> "", conn |-> conn]

\* SELECT * FROM tlinq.trip_page WHERE page_name = %s; conn is the state of
\* the connection when the statement is executed.
fetch_page_sql(page_name, conn) ==
    [table |-> "tlinq.trip_page", where |-> "page_name", param |-> StrV(<<page_name>>),
     order_by |-> "", conn |-> conn]

\* SELECT * FROM tlinq.trip_snippet WHERE page_id = %s ORDER BY snippet_id
fetch_snippets_sql(page_id, conn) ==
    [table |-> "tlinq.trip_snippet", where |-> "page_id", param |-> page_id,
     order_by |-> "snippet_id", conn |-> conn]

\* What fetchone() may return for the page statement: no row (None), or the row.
NoRow == (<<"no row">> :> None)
PageRows(page_name) ==
    { NoRow,
      (PageNameKey :> StrV(<<page_name>>)) @@ (PageIdKey :> IntV(7)),
      (PageNameKey :> StrV(<<page_name>>)) @@ (PageIdKey :> IntV(0)),
      (PageNameKey :> StrV(<<page_name>>)) @@ (PageIdKey :> None),
      (PageNameKey :> StrV(<<page_name>>)) }

\* The content of a snippet row, its identifier and page apart.
RowContents ==
    { (ActiveKey :> IntV(1)) @@ (<<"a">> :> StrV(<<"x">>)),
      (ActiveKey :> IntV(0)) @@ (<<"a">> :> StrV(<<"y">>)),
      (ActiveKey :> StrV(<<"2">>)) @@ (<<"a">> :> None) }

\* What fetchall() may return for a snippet statement: rows of the page asked
\* for; in ascending snippet_id when the statement orders them, in any order
\* when it does not.
IdSeqs(ordered) ==
    { f \in UNION {[1..m -> 1..MaxRows] : m \in 0..MaxRows} :
        /\ \A i, j \in DOMAIN f : i # j => f[i] # f[j]
        /\ ordered => \A i, j \in DOMAIN f : i < j => f[i] < f[j] }

SnippetRows(query) ==
    UNION { { [k \in 1..Len(ids) |->
                  (SnippetIdKey :> IntV(ids[k])) @@ (PageIdKey :> query.param) @@ cs[k]]
              : cs \in [1..Len(ids) -> RowContents] }
            : ids \in IdSeqs(query.order_by = "snippet_id") }

(***************************************************************************)
(* The inputs the functions are applied to.                                *)
(***************************************************************************)
RECURSIVE Concat(_)
Concat(ss) == IF ss = <<>> THEN <<>> ELSE Head(ss) \o Concat(Tail(ss))

SeqsUpTo(S, n) == UNION {[1..k -> S] : k \in 0..n}

KeyA == <<"a">>
KeyU == <<"_">>
TokenA == <<"%","%","a","%","%">>

TemplatePieces == {<<"%">>, <<"%","%">>, <<"a">>, <<"_">>, <<"<">>, TokenA}
Templates == {Concat(ps) : ps \in SeqsUpTo(TemplatePieces, MaxPieces)}

RenderValuesA == {None, IntV(0), IntV(-12), StrV(<<>>), StrV(<<"<">>), StrV(TokenA),
                  StrV(<<"%","a","%","%">>), StrV(<<"%","%">>)}
RenderRecords ==
    {<<>>} \cup {(KeyU :> StrV(<<"x">>))}
        \cup {(KeyA :> v) : v \in RenderValuesA}
        \cup {(KeyA :> v) @@ (KeyU :> StrV(<<"x">>)) : v \in RenderValuesA}

ActiveAlphabet == {"0", "2", "-", "+", " ", "_", "y"}
ActiveValues ==
    {None} \cup {IntV(n) : n \in -1..2}
        \cup {StrV(s) : s \in SeqsUpTo(ActiveAlphabet, MaxActiveStrLen)}
        \cup {StrV(<<"y","e","s">>)}
ActiveRecords ==
    {<<>>} \cup {(KeyA :> StrV(<<"x">>))} \cup {(ActiveKey :> v) : v \in ActiveValues}

AggTemplates == {<<>>, TokenA, <<"<">> \o TokenA \o <<"\n">>}
AggRecords ==
    { (ActiveKey :> IntV(1)) @@ (KeyA :> StrV(<<"x">>)),
      (ActiveKey :> IntV(0)) @@ (KeyA :> StrV(<<"y">>)),
      (ActiveKey :> StrV(<<"2">>)),
      (KeyA :> StrV(<<"z">>)),
      (ActiveKey :> StrV(<<"y","e","s">>)) @@ (KeyA :> StrV(<<"w">>)),
      (ActiveKey :> IntV(2)) @@ (KeyA :> StrV(<<"\n">>)) }

MarkerTail == SubSeq(PLACEHOLDER_MARKER, 4, Len(PLACEHOLDER_MARKER))
SkelPieces == {PLACEHOLDER_MARKER, MarkerTail, <<"<","a",">">>, <<"<","/","a",">">>, <<"-">>}
Skeletons == {Concat(ps) : ps \in SeqsUpTo(SkelPieces, MaxSkelPieces)}
Hello == <<"<","p",">","H","e","l","l","o","<","/","p",">">>
Contents == {<<>>, Hello, PLACEHOLDER_MARKER, <<"x","\n","y">>}

(***************************************************************************)
(* SpecPure: each function applied once to inputs of the sets above.       *)
(***************************************************************************)
Idle == [fn |-> "idle", args |-> <<>>, ret |-> Ok(<<>>)]

Call_render_snippet ==
    /\ call.fn = "idle"
    /\ \E t \in Templates, d \in RenderRecords :
          call' = [fn |-> "render_snippet", args |-> <<t, d>>,
                   ret |-> Ok(render_snippet(t, d))]
    /\ UNCHANGED run

Call_is_snippet_active ==
    /\ call.fn = "idle"
    /\ \E r \in ActiveRecords :
          call' = [fn |-> "_is_snippet_active", args |-> <<r>>,
                   ret |-> _is_snippet_active(r)]
    /\ UNCHANGED run

Call_render_snippets ==
    /\ call.fn = "idle"
    /\ \E t \in AggTemplates, rs \in SeqsUpTo(AggRecords, MaxRecords) :
          call' = [fn |-> "render_snippets", args |-> <<t, rs>>,
                   ret |-> render_snippets(t, rs)]
    /\ UNCHANGED run

Call_inject_snippets ==
    /\ call.fn = "idle"
    /\ \E sk \in Skeletons, c \in Contents :
          call' = [fn |-> "inject_snippets", args |-> <<sk, c>>,
                   ret |-> inject_snippets(sk, c)]
    /\ UNCHANGED run

\* The configuration files and environments load_db_config is applied to: no
\* file, a file without the section, a section with any of the five keys; any
\* of the five DB_* variables.
FilePorts == {<<"5","4","3","2">>, <<"x">>}
EnvPorts == {<<"6","5","4","3">>, <<>>, <<" ","7">>}
Sections ==
    UNION { { [k \in K |-> IF k = "port" THEN p ELSE <<"f">>] : p \in FilePorts }
            : K \in SUBSET ConfigKeys }
CfgFiles ==
    { [exists |-> FALSE, has_section |-> FALSE, section |-> <<>>],
      [exists |-> TRUE, has_section |-> FALSE, section |-> <<>>] }
        \cup { [exists |-> TRUE, has_section |-> TRUE, section |-> sec] : sec \in Sections }
Environs ==
    UNION { { [n \in {EnvName(k) : k \in K} |-> IF n = "DB_PORT" THEN p ELSE <<"e">>]
              : p \in EnvPorts }
            : K \in SUBSET ConfigKeys }

Call_load_db_config ==
    /\ call.fn = "idle"
    /\ \E cfg_file \in CfgFiles, environ \in Environs :
          call' = [fn |-> "load_db_config", args |-> <<cfg_file, environ>>,
                   ret |-> load_db_config(cfg_file, environ)]
    /\ UNCHANGED run

(***************************************************************************)
(* What a run of generate_page is given.                                   *)
(***************************************************************************)
PageName == "page.html"
AltTemplatesDir == PathOf(TRUE, <<(<<"alt">>)>>)

FullSection(port) ==
    [k \in ConfigKeys |-> IF k = "port" THEN port ELSE <<"f">>]
NoPasswordSection ==
    [k \in ConfigKeys \ {"password"} |-> IF k = "port" THEN <<"5","4","3","2">> ELSE <<"f">>]

\* The configuration file and the DB_* variables: complete in the file; completed
\* and overridden by the environment; incomplete; complete with a port that is no int.
ConfigCases ==
    { [cfg_file |-> [exists |-> TRUE, has_section |-> TRUE,
                     section |-> FullSection(<<"5","4","3","2">>)],
       environ |-> <<>>],
      [cfg_file |-> [exists |-> TRUE, has_section |-> TRUE, section |-> NoPasswordSection],
       environ |-> ("DB_PASSWORD" :> <<"e">>) @@ ("DB_PORT" :> <<"6","5","4","3">>)],
      [cfg_file |-> [exists |-> FALSE, has_section |-> FALSE, section |-> <<>>],
       environ |-> ("DB_HOST" :> <<"e">>)],
      [cfg_file |-> [exists |-> TRUE, has_section |-> TRUE,
                     section |-> FullSection(<<"x">>)],
       environ |-> <<>>] }

\* snippet_template_name: None (NoPath), a relative path, an absolute path,
\* and the relative path that is also the page's name.
SnippetArgs ==
    { NoPath, PathOf(FALSE, <<(<<"custom.html">>)>>),
      PathOf(TRUE, <<(<<"abs">>), (<<"custom.html">>)>>),
      PathOf(FALSE, <<(<<PageName>>)>>) }
\* output_path: None (NoPath), a path, and the path of the default skeleton.
OutputArgs ==
    { NoPath, PathOf(FALSE, <<(<<"out">>), (<<"page.html">>)>>),
      SkeletonPath(DEFAULT_TEMPLATES_DIR, PageName) }

SkelGood == <<"<","a",">">> \o PLACEHOLDER_MARKER \o <<"<","/","a",">">>
SkelNoMarker == <<"<","a",">","<","/","a",">">>
SkeletonFiles == {SkelGood, SkelNoMarker}
DirTemplate == <<"<">> \o TokenA \o <<">">>
OtherTemplate == TokenA \o <<"!">>
OldOutput == <<"o","l","d">>

\* A file system of one file, or of none.
FileIf(present, path, content) == IF present THEN (Absolute(path) :> content) ELSE <<>>

\* The run's inputs: sk, t1, t2 and o say which files exist (the skeleton and
\* its content, the snippet template under the templates directory, the one at
\* the path given, the output file).
MkEnv(cc, td, st, op, sk, t1, t2, o) ==
    LET environ == IF td THEN ("TEMPLATES_DIR" :> AltTemplatesDir) @@ cc.environ
                   ELSE cc.environ
        dir == IF td THEN AltTemplatesDir ELSE DEFAULT_TEMPLATES_DIR
        name == IF st = NoPath THEN DEFAULT_SNIPPET_TEMPLATE_NAME ELSE st
        out == IF op = NoPath THEN PathOf(FALSE, <<(<<PageName>>)>>) ELSE op
    IN  [page_name |-> PageName,
         snippet_template_name |-> st,
         output_path |-> op,
         environ |-> environ,
         cfg_file |-> cc.cfg_file,
         files |-> FileIf(sk # <<>>, SkeletonPath(dir, PageName), sk)
                     @@ FileIf(t1, Join(dir, name), DirTemplate)
                     @@ FileIf(t2, name, OtherTemplate)
                     @@ FileIf(o, out, OldOutput)]

Envs ==
    { MkEnv(cc, td, st, op, sk, t1, t2, o) :
        cc \in ConfigCases, td \in BOOLEAN, st \in SnippetArgs, op \in OutputArgs,
        sk \in SkeletonFiles \cup {<<>>}, t1 \in BOOLEAN, t2 \in BOOLEAN, o \in BOOLEAN }

NoExc == [cls |-> "None", msg |-> "", step |-> ""]
Exc(cls, msg, step) == [cls |-> cls, msg |-> msg, step |-> step]

NoLocals ==
    [config |-> NoConfig, templates_dir |-> NoPath, skeleton_path |-> NoPath,
     snippet_template_path |-> NoPath, skeleton |-> <<>>, snippet_template |-> <<>>,
     page |-> <<>>, page_id |-> None, snippets |-> <<>>, rendered_snippets |-> <<>>,
     final_content |-> <<>>, output |-> NoPath]

(***************************************************************************)
(* The command line: parse_args, configure_logging and main.               *)
(***************************************************************************)
LowerSeq == <<"a","b","c","d","e","f","g","h","i","j","k","l","m",
              "n","o","p","q","r","s","t","u","v","w","x","y","z">>
UpperSeq == <<"A","B","C","D","E","F","G","H","I","J","K","L","M",
              "N","O","P","Q","R","S","T","U","V","W","X","Y","Z">>

\* str.upper()
PyUpper(s) ==
    [k \in 1..Len(s) |->
        IF \E n \in 1..Len(LowerSeq) : LowerSeq[n] = s[k]
        THEN UpperSeq[CHOOSE n \in 1..Len(LowerSeq) : LowerSeq[n] = s[k]]
        ELSE s[k]]

\* The upper-case attributes of the logging module: the levels, and BASIC_FORMAT.
LevelNames ==
    (<<"C","R","I","T","I","C","A","L">> :> IntV(50)) @@ (<<"F","A","T","A","L">> :> IntV(50))
        @@ (<<"E","R","R","O","R">> :> IntV(40)) @@ (<<"W","A","R","N","I","N","G">> :> IntV(30))
        @@ (<<"W","A","R","N">> :> IntV(30)) @@ (<<"I","N","F","O">> :> IntV(20))
        @@ (<<"D","E","B","U","G">> :> IntV(10)) @@ (<<"N","O","T","S","E","T">> :> IntV(0))
LoggingAttrs ==
    LevelNames @@ (<<"B","A","S","I","C","_","F","O","R","M","A","T">>
                      :> StrV(<<"%","(","l","e","v","e","l","n","a","m","e",")","s",":",
                                "%","(","n","a","m","e",")","s",":",
                                "%","(","m","e","s","s","a","g","e",")","s">>))

\* logging.basicConfig(level=getattr(logging, level.upper(), logging.INFO), ...):
\* an int is a level, a str is one when it is a level's name, and any other
\* str is the ValueError of an unknown level.
configure_logging(level) ==
    LET name == PyUpper(level)
        value == IF name \in DOMAIN LoggingAttrs THEN LoggingAttrs[name]
                 ELSE LoggingAttrs[<<"I","N","F","O">>]
    IN  IF value.t = "int" \/ value.s \in DOMAIN LevelNames THEN Ok(None)
        ELSE Raise("ValueError", "Unknown level")

\* --log-level: a level, a name logging does not have, a name it has for
\* something else.
LogLevels == { <<"d","e","b","u","g">>, <<"n","o","p","e">>,
               <<"b","a","s","i","c","_","f","o","r","m","a","t">> }

\* The classes caught by `except Exception`.
ExceptionClasses ==
    {"GenerationError", "OperationalError", "OSError", "ValueError", "TypeError", "OverflowError"}

\* The command while main runs, with the arguments it was given.
Running(argv_ok, log_level) ==
    [argv_ok |-> argv_ok, log_level |-> log_level,
     result |-> "running", exit_code |-> 0, escaped |-> "None"]
NoMain == Running(TRUE, <<"I","N","F","O">>)

NoFirst ==
    [done |-> FALSE, page |-> <<>>, snippets |-> <<>>, output |-> NoPath, content |-> <<>>,
     skeleton_path |-> NoPath, skeleton |-> <<>>,
     snippet_template_path |-> NoPath, snippet_template |-> <<>>]

NoRun ==
    /\ env = MkEnv(CHOOSE cc \in ConfigCases : cc.environ = <<>> /\ cc.cfg_file.section["port"] # <<"x">>,
                   FALSE, NoPath, NoPath, SkelGood, TRUE, FALSE, FALSE)
    /\ pc = "off"
    /\ loc = NoLocals
    /\ fs = env.files
    /\ db = [conn |-> "none", cursor |-> "none"]
    /\ queries = <<>>
    /\ exc = NoExc
    /\ main = NoMain
    /\ first = NoFirst

InitPure == call = Idle /\ NoRun

NextPure ==
    \/ Call_render_snippet
    \/ Call_is_snippet_active
    \/ Call_render_snippets
    \/ Call_inject_snippets
    \/ Call_load_db_config

SpecPure == InitPure /\ [][NextPure]_vars

(***************************************************************************)
(* main and generate_page, step by step.                                   *)
(***************************************************************************)
Init ==
    /\ call = Idle
    /\ env \in Envs
    /\ pc = "parse_args"
    /\ loc = NoLocals
    /\ fs = env.files
    /\ db = [conn |-> "none", cursor |-> "none"]
    /\ queries = <<>>
    /\ exc = NoExc
    /\ main \in {Running(a, l) : a \in BOOLEAN, l \in LogLevels}
    /\ first = NoFirst

\* args = parse_args(argv): the arguments, or argparse's usage message and
\* SystemExit(2), which leaves main.
ParseArgs ==
    /\ pc = "parse_args"
    /\ IF main.argv_ok
       THEN /\ pc' = "configure_logging"
            /\ main' = main
       ELSE /\ pc' = "exited"
            /\ main' = [main EXCEPT !.result = "escaped", !.escaped = "SystemExit",
                                    !.exit_code = 2]
    /\ UNCHANGED <<call, env, loc, fs, db, queries, exc, first>>

\* configure_logging(args.log_level), outside the try statement: what it
\* raises leaves main, and the interpreter exits with status 1.
ConfigureLogging ==
    /\ pc = "configure_logging"
    /\ LET r == configure_logging(main.log_level)
       IN  IF r.raised = "None"
           THEN /\ pc' = "load_db_config"
                /\ main' = main
           ELSE /\ pc' = "exited"
                /\ main' = [main EXCEPT !.result = "escaped", !.escaped = r.raised,
                                        !.exit_code = 1]
    /\ UNCHANGED <<call, env, loc, fs, db, queries, exc, first>>

\* A variant of LoadDbConfig that notes the error and goes on.
LoadDbConfig_goes_on ==
    /\ pc = "load_db_config"
    /\ LET r == load_db_config(env.cfg_file, env.environ)
       IN  IF r.raised = "None"
           THEN /\ loc' = [loc EXCEPT !.config = r.value]
                /\ exc' = exc
           ELSE /\ loc' = loc
                /\ exc' = Exc(r.raised, r.value, "configure")
    /\ pc' = "resolve_templates"
    /\ UNCHANGED <<call, env, fs, db, queries, main, first>>

\* config = load_db_config()
LoadDbConfig ==
    /\ pc = "load_db_config"
    /\ LET r == load_db_config(env.cfg_file, env.environ)
       IN  IF r.raised = "None"
           THEN /\ loc' = [loc EXCEPT !.config = r.value]
                /\ pc' = "resolve_templates"
                /\ exc' = exc
           ELSE /\ loc' = loc
                /\ pc' = "raised"
                /\ exc' = Exc(r.raised, r.value, "configure")
    /\ UNCHANGED <<call, env, fs, db, queries, main, first>>

\* templates_dir, skeleton_path and snippet_template_path
ResolveTemplates ==
    /\ pc = "resolve_templates"
    /\ LET templates_dir == resolve_templates_dir(env.environ)
           snippet_template_input ==
               IF env.snippet_template_name # NoPath THEN env.snippet_template_name
               ELSE DEFAULT_SNIPPET_TEMPLATE_NAME
       IN  loc' = [loc EXCEPT
                     !.templates_dir = templates_dir,
                     !.skeleton_path = SkeletonPath(templates_dir, env.page_name),
                     !.snippet_template_path =
                         resolve_snippet_template_path(snippet_template_input, templates_dir, fs)]
    /\ pc' = "load_skeleton"
    /\ UNCHANGED <<call, env, fs, db, queries, exc, main, first>>

\* skeleton = load_file(skeleton_path)
LoadSkeleton ==
    /\ pc = "load_skeleton"
    /\ LET r == load_file(fs, loc.skeleton_path)
       IN  IF r.raised = "None"
           THEN /\ loc' = [loc EXCEPT !.skeleton = r.value]
                /\ pc' = "load_snippet_template"
                /\ exc' = exc
           ELSE /\ loc' = loc
                /\ pc' = "raised"
                /\ exc' = Exc(r.raised, r.value, "resolve_templates")
    /\ UNCHANGED <<call, env, fs, db, queries, main, first>>

\* snippet_template = load_file(snippet_template_path)
LoadSnippetTemplate ==
    /\ pc = "load_snippet_template"
    /\ LET r == load_file(fs, loc.snippet_template_path)
       IN  IF r.raised = "None"
           THEN /\ loc' = [loc EXCEPT !.snippet_template = r.value]
                /\ pc' = "connect"
                /\ exc' = exc
           ELSE /\ loc' = loc
                /\ pc' = "raised"
                /\ exc' = Exc(r.raised, r.value, "resolve_templates")
    /\ UNCHANGED <<call, env, fs, db, queries, main, first>>

\* connect_to_db(config): the driver may be missing (a GenerationError), the
\* data source may be unreachable (psycopg.connect raises its OperationalError),
\* or the connection is made and the with block entered.
ConnectToDb ==
    /\ pc = "connect"
    /\ \E outcome \in {"no driver", "unreachable", "connected"} :
          CASE outcome = "no driver" ->
                  /\ exc' = Exc("GenerationError", "psycopg is required to connect to PostgreSQL",
                                "load_data")
                  /\ pc' = "raised"
                  /\ db' = db
            [] outcome = "unreachable" ->
                  /\ exc' = Exc("OperationalError", "connection failed", "load_data")
                  /\ pc' = "raised"
                  /\ db' = db
            [] outcome = "connected" ->
                  /\ exc' = exc
                  /\ pc' = "cursor"
                  /\ db' = [db EXCEPT !.conn = "open"]
    /\ UNCHANGED <<call, env, loc, fs, queries, main, first>>

\* conn.cursor(row_factory=dict_row): the cursor, or the driver's error.
OpenCursor ==
    /\ pc = "cursor"
    /\ \E ok \in BOOLEAN :
          IF ok
          THEN /\ db' = [db EXCEPT !.cursor = "open"]
               /\ pc' = "fetch_page"
               /\ exc' = exc
          ELSE /\ db' = db
               /\ pc' = "conn_exit"
               /\ exc' = Exc("OperationalError", "the connection is lost", "load_data")
    /\ UNCHANGED <<call, env, loc, fs, queries, main, first>>

\* page = fetch_page(cursor, page_name)
FetchPage ==
    /\ pc = "fetch_page"
    /\ queries' = Append(queries, fetch_page_sql(env.page_name, db.conn))
    /\ \/ /\ exc' = Exc("OperationalError", "the statement failed", "load_data")
          /\ pc' = "cursor_exit"
          /\ loc' = loc
       \/ \E row \in PageRows(env.page_name) :
             /\ first.done => row = first.page
             /\ IF row = NoRow
                THEN /\ exc' = Exc("GenerationError", "No trip_page entry found", "load_data")
                     /\ pc' = "cursor_exit"
                     /\ loc' = loc
                ELSE /\ exc' = exc
                     /\ pc' = "check_page_id"
                     /\ loc' = [loc EXCEPT !.page = row]
    /\ UNCHANGED <<call, env, fs, db, main, first>>

\* A variant of CheckPageId that tests `if not page_id`.
CheckPageId_rejects_zero ==
    /\ pc = "check_page_id"
    /\ LET page_id == DictGet(loc.page, PageIdKey)
       IN  IF page_id = None \/ page_id = IntV(0)
           THEN /\ exc' = Exc("GenerationError", "trip_page row is missing a 'page_id' column",
                              "load_data")
                /\ pc' = "cursor_exit"
                /\ loc' = loc
           ELSE /\ exc' = exc
                /\ pc' = "fetch_snippets"
                /\ loc' = [loc EXCEPT !.page_id = page_id]
    /\ UNCHANGED <<call, env, fs, db, queries, main, first>>

\* page_id = page.get("page_id"); if page_id is None: raise
CheckPageId ==
    /\ pc = "check_page_id"
    /\ LET page_id == DictGet(loc.page, PageIdKey)
       IN  IF page_id = None
           THEN /\ exc' = Exc("GenerationError", "trip_page row is missing a 'page_id' column",
                              "load_data")
                /\ pc' = "cursor_exit"
                /\ loc' = loc
           ELSE /\ exc' = exc
                /\ pc' = "fetch_snippets"
                /\ loc' = [loc EXCEPT !.page_id = page_id]
    /\ UNCHANGED <<call, env, fs, db, queries, main, first>>

\* snippets = fetch_snippets(cursor, page_id)
FetchSnippets ==
    /\ pc = "fetch_snippets"
    /\ LET q == fetch_snippets_sql(loc.page_id, db.conn)
       IN  /\ queries' = Append(queries, q)
           /\ \/ /\ exc' = Exc("OperationalError", "the statement failed", "load_data")
                 /\ loc' = loc
              \/ /\ exc' = exc
                 /\ \E rows \in SnippetRows(q) :
                       /\ first.done => rows = first.snippets
                       /\ loc' = [loc EXCEPT !.snippets = rows]
    /\ pc' = "cursor_exit"
    /\ UNCHANGED <<call, env, fs, db, main, first>>

\* The end of `with conn.cursor(...) as cursor`, left normally or by an
\* exception: the cursor is closed.
CursorExit ==
    /\ pc = "cursor_exit"
    /\ db' = [db EXCEPT !.cursor = "closed"]
    /\ pc' = "conn_exit"
    /\ UNCHANGED <<call, env, loc, fs, queries, exc, main, first>>

\* A variant of ConnExit that closes the connection at the normal end alone.
ConnExit_leak_on_error ==
    /\ pc = "conn_exit"
    /\ db' = IF exc = NoExc THEN [db EXCEPT !.conn = "closed"] ELSE db
    /\ pc' = IF exc = NoExc THEN "render" ELSE "raised"
    /\ UNCHANGED <<call, env, loc, fs, queries, exc, main, first>>

\* The end of `with connect_to_db(config) as conn`, left normally or by an
\* exception: the connection is closed, and the exception goes on.
ConnExit ==
    /\ pc = "conn_exit"
    /\ db' = [db EXCEPT !.conn = "closed"]
    /\ pc' = IF exc = NoExc THEN "render" ELSE "raised"
    /\ UNCHANGED <<call, env, loc, fs, queries, exc, main, first>>

\* rendered_snippets = render_snippets(snippet_template, snippets)
RenderSnippets ==
    /\ pc = "render"
    /\ LET r == render_snippets(loc.snippet_template, loc.snippets)
       IN  IF r.raised = "None"
           THEN /\ loc' = [loc EXCEPT !.rendered_snippets = r.value]
                /\ pc' = "inject"
                /\ exc' = exc
           ELSE /\ loc' = loc
                /\ pc' = "raised"
                /\ exc' = Exc(r.raised, r.value, "render")
    /\ UNCHANGED <<call, env, fs, db, queries, main, first>>

\* A variant of InjectSnippets that creates the output file before it assembles.
InjectSnippets_after_touch ==
    /\ pc = "inject"
    /\ LET r == inject_snippets(loc.skeleton, loc.rendered_snippets)
           output == IF env.output_path # NoPath THEN env.output_path
                     ELSE PathOf(FALSE, <<(<<env.page_name>>)>>)
       IN  /\ fs' = (Absolute(output) :> <<>>) @@ fs
           /\ IF r.raised = "None"
              THEN /\ loc' = [loc EXCEPT !.final_content = r.value]
                   /\ pc' = "write"
                   /\ exc' = exc
              ELSE /\ loc' = loc
                   /\ pc' = "raised"
                   /\ exc' = Exc(r.raised, r.value, "assemble")
    /\ UNCHANGED <<call, env, db, queries, main, first>>

\* final_content = inject_snippets(skeleton, rendered_snippets)
InjectSnippets ==
    /\ pc = "inject"
    /\ LET r == inject_snippets(loc.skeleton, loc.rendered_snippets)
       IN  IF r.raised = "None"
           THEN /\ loc' = [loc EXCEPT !.final_content = r.value]
                /\ pc' = "write"
                /\ exc' = exc
           ELSE /\ loc' = loc
                /\ pc' = "raised"
                /\ exc' = Exc(r.raised, r.value, "assemble")
    /\ UNCHANGED <<call, env, fs, db, queries, main, first>>

\* A variant of WriteOutput that writes <page_name> in the working directory
\* whatever output_path is.
WriteOutput_ignores_output_path ==
    /\ pc = "write"
    /\ LET output == PathOf(FALSE, <<(<<env.page_name>>)>>)
       IN  /\ fs' = (Absolute(output) :> loc.final_content) @@ fs
           /\ loc' = [loc EXCEPT !.output = output]
           /\ pc' = "returned"
           /\ exc' = exc
    /\ UNCHANGED <<call, env, db, queries, main, first>>

\* A variant of WriteOutput that appends to the output file when there is one.
WriteOutput_appends ==
    /\ pc = "write"
    /\ LET output == IF env.output_path # NoPath THEN env.output_path
                     ELSE PathOf(FALSE, <<(<<env.page_name>>)>>)
           old == IF Exists(fs, output) THEN fs[Absolute(output)] ELSE <<>>
       IN  /\ fs' = (Absolute(output) :> old \o loc.final_content) @@ fs
           /\ loc' = [loc EXCEPT !.output = output]
           /\ pc' = "returned"
           /\ exc' = exc
    /\ UNCHANGED <<call, env, db, queries, main, first>>

\* output = output_path or Path(page_name); the parent directories are made,
\* the file is opened for writing (created or emptied) and written.  Each of
\* the three may fail with an OSError.
WriteOutput ==
    /\ pc = "write"
    /\ LET output == IF env.output_path # NoPath THEN env.output_path
                     ELSE PathOf(FALSE, <<(<<env.page_name>>)>>)
       IN  \E outcome \in {"written", "mkdir fails", "open fails", "write fails"} :
              CASE outcome = "written" ->
                      /\ fs' = (Absolute(output) :> loc.final_content) @@ fs
                      /\ loc' = [loc EXCEPT !.output = output]
                      /\ pc' = "returned"
                      /\ exc' = exc
                [] outcome \in {"mkdir fails", "open fails"} ->
                      /\ fs' = fs
                      /\ loc' = [loc EXCEPT !.output = output]
                      /\ pc' = "raised"
                      /\ exc' = Exc("OSError", outcome, "persist")
                [] outcome = "write fails" ->
                      /\ fs' = (Absolute(output) :> <<>>) @@ fs
                      /\ loc' = [loc EXCEPT !.output = output]
                      /\ pc' = "raised"
                      /\ exc' = Exc("OSError", outcome, "persist")
    /\ UNCHANGED <<call, env, db, queries, main, first>>

\* A variant of MainReturn without the `except Exception` clause.
MainReturn_generation_error_only ==
    /\ pc \in {"returned", "raised"}
    /\ main.result = "running"
    /\ main' = IF pc = "returned"
               THEN [main EXCEPT !.result = "returned", !.exit_code = 0]
               ELSE IF exc.cls = "GenerationError"
               THEN [main EXCEPT !.result = "returned", !.exit_code = 1]
               ELSE [main EXCEPT !.result = "escaped", !.escaped = exc.cls, !.exit_code = 1]
    /\ UNCHANGED <<call, env, pc, loc, fs, db, queries, exc, first>>

\* The try statement of main: 0 when generate_page returned, 1 when it raised
\* a GenerationError or another Exception; anything else leaves main.
MainReturn ==
    /\ pc \in {"returned", "raised"}
    /\ main.result = "running"
    /\ main' = IF pc = "returned"
               THEN [main EXCEPT !.result = "returned", !.exit_code = 0]
               ELSE IF exc.cls \in ExceptionClasses
               THEN [main EXCEPT !.result = "returned", !.exit_code = 1]
               ELSE [main EXCEPT !.result = "escaped", !.escaped = exc.cls, !.exit_code = 1]
    /\ UNCHANGED <<call, env, pc, loc, fs, db, queries, exc, first>>

\* The command is run a second time with the same arguments, environment
\* and data, on the files the first run left.
RunAgain ==
    /\ pc = "returned"
    /\ main.result = "returned"
    /\ ~first.done
    /\ first' = [done |-> TRUE, page |-> loc.page, snippets |-> loc.snippets,
                 output |-> loc.output, content |-> fs[Absolute(loc.output)],
                 skeleton_path |-> loc.skeleton_path, skeleton |-> loc.skeleton,
                 snippet_template_path |-> loc.snippet_template_path,
                 snippet_template |-> loc.snippet_template]
    /\ env' = [env EXCEPT !.files = fs]
    /\ main' = Running(main.argv_ok, main.log_level)
    /\ pc' = "parse_args"
    /\ loc' = NoLocals
    /\ db' = [conn |-> "none", cursor |-> "none"]
    /\ queries' = <<>>
    /\ exc' = NoExc
    /\ UNCHANGED <<call, fs>>

Next ==
    \/ ParseArgs
    \/ ConfigureLogging
    \/ LoadDbConfig
    \/ ResolveTemplates
    \/ LoadSkeleton
    \/ LoadSnippetTemplate
    \/ ConnectToDb
    \/ OpenCursor
    \/ FetchPage
    \/ CheckPageId
    \/ FetchSnippets
    \/ CursorExit
    \/ ConnExit
    \/ RenderSnippets
    \/ InjectSnippets
    \/ WriteOutput
    \/ MainReturn
    \/ RunAgain

Spec == Init /\ [][Next]_vars

(***************************************************************************)
(* What the properties below are stated with: the token syntax, the        *)
(* occurrences of a substring and the int literals, each said outright     *)
(* and not by the scans above.                                             *)
(***************************************************************************)
\* s[i..e-1] is a token: %%, one or more of [a-zA-Z0-9_], %%.
TokenAt(s, i, e) ==
    /\ 1 <= i /\ i + 5 <= e /\ e - 1 <= Len(s)
    /\ s[i] = "%" /\ s[i + 1] = "%" /\ s[e - 2] = "%" /\ s[e - 1] = "%"
    /\ \A k \in (i + 2)..(e - 3) : s[k] \in IdentChars

TokenStartsAt(s, i) == \E e \in (i + 5)..(Len(s) + 1) : TokenAt(s, i, e)
TokenEnd(s, i) == CHOOSE e \in (i + 5)..(Len(s) + 1) : TokenAt(s, i, e)
HasToken(s) == \E i \in 1..Len(s) : TokenStartsAt(s, i)

\* The string form of the record's value for a key: "" when absent or null.
FieldText(data, key) ==
    IF key \in DOMAIN data /\ data[key].t # "none" THEN PyStr(data[key]) ELSE <<>>

\* The tokens of s from pos on, left to right and non-overlapping: <<start, end>>.
RECURSIVE TokenList(_, _)
TokenList(s, pos) ==
    IF pos > Len(s) THEN <<>>
    ELSE IF TokenStartsAt(s, pos)
         THEN <<(<<pos, TokenEnd(s, pos)>>)>> \o TokenList(s, TokenEnd(s, pos))
         ELSE TokenList(s, pos + 1)

Occurrences(s, sub) ==
    {i \in 1..(Len(s) - Len(sub) + 1) : SubSeq(s, i, i + Len(sub) - 1) = sub}
Occurs(s, sub) == Occurrences(s, sub) # {}

\* The occurrences a left-to-right replacement takes: an occurrence is taken
\* iff it does not overlap a taken one to its left.
TakenOccurrences(s, sub) ==
    CHOOSE S \in SUBSET Occurrences(s, sub) :
        \A i \in Occurrences(s, sub) :
            (i \in S) <=> ~(\E j \in S : j < i /\ i < j + Len(sub))

\* s with new put at each position of S and the Len(sub) characters that start
\* at a position of S left out.
RECURSIVE Filled(_, _, _, _, _)
Filled(s, S, sub, new, pos) ==
    IF pos > Len(s) THEN <<>>
    ELSE (IF pos \in S THEN new ELSE <<>>)
            \o (IF \E j \in S : j <= pos /\ pos < j + Len(sub) THEN <<>> ELSE <<s[pos]>>)
            \o Filled(s, S, sub, new, pos + 1)

\* s, stripped of the whitespace around it, is an int literal: an optional
\* sign, then digits with single underscores between them.
IsIntLiteral(s) ==
    \E lo \in 1..Len(s), hi \in 1..Len(s) :
        /\ lo <= hi
        /\ \A k \in 1..Len(s) : (k < lo \/ k > hi) => s[k] \in Whitespace
        /\ LET b == IF s[lo] \in {"+", "-"} THEN lo + 1 ELSE lo
           IN  /\ b <= hi
               /\ s[b] \in Digits /\ s[hi] \in Digits
               /\ \A k \in b..hi : s[k] \in Digits \cup {"_"}
               /\ \A k \in b..(hi - 1) : ~(s[k] = "_" /\ s[k + 1] = "_")

\* The value is interpretable as an integer, and that integer is not zero.
InterpretableNonzero(v) ==
    \/ v.t = "int" /\ v.i # 0
    \/ v.t = "str" /\ IsIntLiteral(v.s) /\ \E k \in 1..Len(v.s) : v.s[k] \in Digits \ {"0"}

IsActive(r) == LET a == _is_snippet_active(r) IN a.raised = "None" /\ a.value

RECURSIVE JoinNL(_)
JoinNL(list) ==
    IF list = <<>> THEN <<>>
    ELSE IF Len(list) = 1 THEN list[1]
    ELSE list[1] \o <<"\n">> \o JoinNL(Tail(list))

RECURSIVE SumInts(_)
SumInts(list) == IF list = <<>> THEN 0 ELSE Head(list) + SumInts(Tail(list))

RECURSIVE SumLen(_)
SumLen(list) == IF list = <<>> THEN 0 ELSE Len(Head(list)) + SumLen(Tail(list))

(***************************************************************************)
(* C1..C6: the pure functions, under SpecPure.                              *)
(***************************************************************************)

\* C1: render_snippets returns the renders of the active records, in input
\* order, joined by a single "\n", with no leading or trailing separator; no
\* active record (or no record) gives "".
C1_AggregateJoinsActiveRenders ==
    call.fn = "render_snippets" =>
        LET t == call.args[1]
            rs == call.args[2]
            act == SelectSeq(rs, IsActive)
            renders == [k \in 1..Len(act) |-> render_snippet(t, act[k])]
        IN  /\ call.ret.raised = "None"
            /\ call.ret.value = JoinNL(renders)
            /\ (act = <<>> => call.ret.value = <<>>)
            /\ Len(call.ret.value)
                  = SumLen(renders) + (IF act = <<>> THEN 0 ELSE Len(act) - 1)

\* Three records, the second inactive: two renders with one "\n" between them.
C1_Witness ==
    /\ call.fn = "render_snippets"
    /\ call.args[1] = TokenA
    /\ Len(call.args[2]) = 3
    /\ IsActive(call.args[2][1]) /\ ~IsActive(call.args[2][2]) /\ IsActive(call.args[2][3])
    /\ call.ret = Ok(<<"x", "\n">>)

\* C2: _is_snippet_active never raises, and a record is active iff it has an
\* `active` field whose value is interpretable as an integer that is nonzero:
\* 1, 2 and "2" are active; 0, "0", a missing key, None and "yes" are not.
C2_ActiveIffNonzeroInteger ==
    call.fn = "_is_snippet_active" =>
        LET r == call.args[1]
            has == ActiveKey \in DOMAIN r
        IN  /\ call.ret.raised = "None"
            /\ call.ret.value = (has /\ InterpretableNonzero(r[ActiveKey]))
            /\ (has /\ r[ActiveKey] \in {IntV(1), IntV(2), StrV(<<"2">>)}
                    => call.ret.value)
            /\ (has /\ r[ActiveKey] \in {IntV(0), StrV(<<"0">>), None, StrV(<<"y","e","s">>)}
                    => ~call.ret.value)
            /\ (~has => ~call.ret.value)

\* The non-numeric string "yes": inactive, and nothing raised.
C2_Witness ==
    /\ call.fn = "_is_snippet_active"
    /\ call.args[1] = (ActiveKey :> StrV(<<"y","e","s">>))
    /\ call.ret = Ok(FALSE)

\* C3: render_snippet never fails; a template without token is returned as it
\* is; otherwise the text before the leftmost token is kept, the token is
\* replaced by the string form of the record's value for its identifier ("" when
\* the key is absent or null), and the text after the token is rendered the same way.
C3_RenderReplacesTokens ==
    call.fn = "render_snippet" =>
        LET T == call.args[1]
            R == call.args[2]
        IN  /\ call.ret.raised = "None"
            /\ (~HasToken(T) => call.ret.value = T)
            /\ \A i \in 1..Len(T) :
                  (TokenStartsAt(T, i) /\ \A j \in 1..(i - 1) : ~TokenStartsAt(T, j)) =>
                      LET e == TokenEnd(T, i)
                      IN  call.ret.value =
                              SubSeq(T, 1, i - 1)
                                \o FieldText(R, SubSeq(T, i + 2, e - 3))
                                \o render_snippet(SubSeq(T, e, Len(T)), R)

\* Two tokens, the first of a present integer field, the second of an absent one.
C3_Witness ==
    /\ call.fn = "render_snippet"
    /\ call.args[1] = TokenA \o <<"%","%","_","%","%">>
    /\ call.args[2] = (KeyA :> IntV(-12))
    /\ call.ret = Ok(<<"-","1","2">>)

\* C4: substitution is single-pass: the value put in place of each token stands
\* verbatim in the output, at the token's place shifted by the substitutions to
\* its left, also when the value holds (or completes) a %%name%% token.
C4_SubstitutionSinglePass ==
    call.fn = "render_snippet" =>
        LET T == call.args[1]
            R == call.args[2]
            out == call.ret.value
            toks == TokenList(T, 1)
            val(k) == FieldText(R, SubSeq(T, toks[k][1] + 2, toks[k][2] - 3))
            grow == [k \in 1..Len(toks) |-> Len(val(k)) - (toks[k][2] - toks[k][1])]
            shift(k) == SumInts(SubSeq(grow, 1, k - 1))
        IN  /\ Len(out) = Len(T) + shift(Len(toks) + 1)
            /\ \A k \in 1..Len(toks) :
                  SubSeq(out, toks[k][1] + shift(k), toks[k][1] + shift(k) + Len(val(k)) - 1)
                      = val(k)

\* A value that completes a token with the "%" before it: the output is a
\* token, left as it is.
C4_Witness ==
    /\ call.fn = "render_snippet"
    /\ call.args[1] = <<"%">> \o TokenA
    /\ call.args[2] = (KeyA :> StrV(<<"%","a","%","%">>))
    /\ call.ret = Ok(TokenA)
    /\ HasToken(call.ret.value)

\* C5: on a skeleton without the sentinel inject_snippets raises the
\* GenerationError of the missing marker, whatever the content.
C5_MissingMarkerRaises ==
    (call.fn = "inject_snippets" /\ ~Occurs(call.args[1], PLACEHOLDER_MARKER)) =>
        call.ret = Raise("GenerationError", "Skeleton template missing placeholder marker")

\* No sentinel in the skeleton, the sentinel in the content.
C5_Witness ==
    /\ call.fn = "inject_snippets"
    /\ call.args[1] = <<"<","a",">">> \o MarkerTail
    /\ call.args[2] = PLACEHOLDER_MARKER
    /\ call.ret.raised = "GenerationError"

\* C6, as stated: on a skeleton with the sentinel, every occurrence of the
\* sentinel is replaced by the content and all other skeleton text is unchanged.
C6_EveryOccurrenceReplaced ==
    (call.fn = "inject_snippets" /\ Occurs(call.args[1], PLACEHOLDER_MARKER)) =>
        call.ret = Ok(Filled(call.args[1], Occurrences(call.args[1], PLACEHOLDER_MARKER),
                             PLACEHOLDER_MARKER, call.args[2], 1))

\* C6, amended: on a skeleton with the sentinel, every occurrence taken left to
\* right that does not overlap one already taken is replaced by the content, and
\* all other skeleton text (the rest of an overlapping occurrence included) is
\* unchanged; the content is not scanned for the sentinel.
C6_NonOverlappingOccurrencesReplaced ==
    (call.fn = "inject_snippets" /\ Occurs(call.args[1], PLACEHOLDER_MARKER)) =>
        /\ call.ret = Ok(Filled(call.args[1],
                                TakenOccurrences(call.args[1], PLACEHOLDER_MARKER),
                                PLACEHOLDER_MARKER, call.args[2], 1))
        /\ (call.args[1] = <<"<","a",">">> \o PLACEHOLDER_MARKER \o <<"<","/","a",">">>
                /\ call.args[2] = Hello
              => call.ret.value = <<"<","a",">">> \o Hello \o <<"<","/","a",">">>)

\* Two sentinels replaced by a content that is itself the sentinel.
C6_Witness ==
    /\ call.fn = "inject_snippets"
    /\ call.args[1] = PLACEHOLDER_MARKER \o <<"-">> \o PLACEHOLDER_MARKER
    /\ call.args[2] = PLACEHOLDER_MARKER
    /\ call.ret = Ok(call.args[1])

(***************************************************************************)
(* C7..C10: the run of generate_page, under Spec.                           *)
(***************************************************************************)

\* C7, as stated: whenever a step of generate_page fails, the error that reaches
\* the caller is a GenerationError; an unreachable data source too surfaces as
\* a GenerationError, not as the driver's exception.
C7_EveryFailureIsGenerationError ==
    pc = "raised" => exc.cls = "GenerationError"

\* C8: a run that acquired a connection never ends with the connection or its
\* cursor held, whether it returns or raises, and the connection is released
\* before render_snippets begins.
C8_ConnectionReleasedOnEveryExit ==
    /\ (pc \in {"returned", "raised"} /\ db.conn # "none")
          => (db.conn = "closed" /\ db.cursor # "open")
    /\ pc \in {"render", "inject", "write", "returned"}
          => (db.conn = "closed" /\ db.cursor = "closed")

\* The snippet statement raised: the run ends with both released.
C8_Witness ==
    /\ pc = "raised"
    /\ exc.cls = "OperationalError"
    /\ Len(queries) = 2
    /\ db = [conn |-> "closed", cursor |-> "closed"]

\* C9: a run that returns executed exactly two statements, first the page by
\* its name, then the snippets of that page's page_id in ascending snippet_id
\* (and so fetched them in that order); every statement was executed while the
\* connection was open.
C9_TwoQueriesInOrder ==
    /\ \A k \in 1..Len(queries) : queries[k].conn = "open"
    /\ pc = "returned" =>
          /\ Len(queries) = 2
          /\ queries[1].table = "tlinq.trip_page"
          /\ queries[1].where = "page_name"
          /\ queries[1].param = StrV(<<env.page_name>>)
          /\ queries[2].table = "tlinq.trip_snippet"
          /\ queries[2].where = "page_id"
          /\ queries[2].param = loc.page[PageIdKey]
          /\ queries[2].order_by = "snippet_id"
          /\ \A i, j \in 1..Len(loc.snippets) :
                i < j => loc.snippets[i][SnippetIdKey].i < loc.snippets[j][SnippetIdKey].i

\* A run that returned after fetching two snippets of page 7.
C9_Witness ==
    /\ pc = "returned"
    /\ loc.page_id = IntV(7)
    /\ Len(loc.snippets) = 2
    /\ Len(queries) = 2
    /\ db.conn = "closed"

\* C10: a run that raises in any step before the write leaves the files as they
\* were, the output file included; the files change only in the last step.
C10_NoOutputOnFailure ==
    /\ (pc = "raised" /\ exc.step # "persist") => fs = env.files
    /\ pc \notin {"returned", "raised"} => fs = env.files

\* The skeleton has no marker: the run raises and the old output file stands.
C10_Witness ==
    /\ pc = "raised"
    /\ exc = Exc("GenerationError", "Skeleton template missing placeholder marker", "assemble")
    /\ env.output_path # NoPath
    /\ Absolute(env.output_path) \in DOMAIN fs
    /\ fs[Absolute(env.output_path)] = OldOutput

(***************************************************************************)
(* C11..C19: main and generate_page, under Spec.                           *)
(***************************************************************************)

\* The output location of the run: output_path when given, else <page_name>
\* in the working directory.
OutputLocation ==
    IF env.output_path # NoPath THEN env.output_path ELSE PathOf(FALSE, <<(<<env.page_name>>)>>)

\* assemble(skeleton, aggregate(template, rows)), said with the occurrences of
\* the sentinel and the active rows.
Assembled(skeleton, template, rows) ==
    LET act == SelectSeq(rows, LAMBDA r : ActiveKey \in DOMAIN r /\ InterpretableNonzero(r[ActiveKey]))
        renders == [k \in 1..Len(act) |-> render_snippet(template, act[k])]
    IN  Filled(skeleton, TakenOccurrences(skeleton, PLACEHOLDER_MARKER),
               PLACEHOLDER_MARKER, JoinNL(renders), 1)

\* C11: a run that returns has written, at output_path when given and at
\* <page_name> in the working directory when not, exactly the skeleton with the
\* sentinel replaced by the renders of the active fetched snippets; it returns
\* that location, and it has written no other file.
C11_WritesAssembledPageToOutput ==
    pc = "returned" =>
        LET skeleton == env.files[Absolute(loc.skeleton_path)]
            template == env.files[Absolute(loc.snippet_template_path)]
        IN  /\ loc.output = OutputLocation
            /\ DOMAIN fs = DOMAIN env.files \cup {Absolute(OutputLocation)}
            /\ fs[Absolute(OutputLocation)] = Assembled(skeleton, template, loc.snippets)
            /\ \A p \in DOMAIN env.files \ {Absolute(OutputLocation)} : fs[p] = env.files[p]
            /\ (skeleton = SkelGood /\ template = DirTemplate /\ Len(loc.snippets) = 1
                    /\ IsActive(loc.snippets[1])
                  => fs[Absolute(OutputLocation)]
                        = <<"<","a",">">> \o render_snippet(DirTemplate, loc.snippets[1])
                              \o <<"<","/","a",">">>)

\* No output_path: <page_name> in the working directory holds the skeleton
\* around the renders of two active snippets, and is what the run returned.
C11_Witness ==
    /\ pc = "returned"
    /\ env.output_path = NoPath
    /\ loc.output = PathOf(FALSE, <<(<<PageName>>)>>)
    /\ Join(Cwd, loc.output) \in DOMAIN fs
    /\ fs[Join(Cwd, loc.output)]
          = <<"<","a",">">> \o <<"<","x",">","\n","<",">">> \o <<"<","/","a",">">>

FileHas(cfg_file, k) == cfg_file.exists /\ cfg_file.has_section /\ k \in DOMAIN cfg_file.section
EnvHas(environ, k) == EnvName(k) \in DOMAIN environ

\* The text of a descriptor's field: the port is an int, the others are strs.
FieldOf(config, k) ==
    CASE k = "host" -> config.host [] k = "dbname" -> config.dbname
      [] k = "user" -> config.user [] k = "password" -> config.password

\* C13: each field of the descriptor load_db_config returns is the
\* environment's value when the environment supplies one, and the file
\* section's value only when it supplies none (load_db_config has no other
\* source: nothing overrides the environment).
C13_EnvironmentOverridesFile ==
    (call.fn = "load_db_config" /\ call.ret.raised = "None") =>
        LET cfg_file == call.args[1]
            environ == call.args[2]
            chosen(k) == IF EnvHas(environ, k) THEN environ[EnvName(k)]
                         ELSE cfg_file.section[k]
        IN  /\ \A k \in ConfigKeys : EnvHas(environ, k) \/ FileHas(cfg_file, k)
            /\ \A k \in ConfigKeys \ {"port"} : FieldOf(call.ret.value, k) = chosen(k)
            /\ IsIntLiteral(chosen("port"))
            /\ \A d \in SeqsUpTo(Digits \ {"0"}, 4) :
                  chosen("port") \in {d, <<" ">> \o d} => NatStr(call.ret.value.port) = d

\* The file gives all five fields, the environment DB_HOST and DB_PORT: host
\* and port are the environment's, the other three the file's.
C13_Witness ==
    /\ call.fn = "load_db_config"
    /\ DOMAIN call.args[1].section = ConfigKeys
    /\ call.args[1].section["port"] = <<"5","4","3","2">>
    /\ DOMAIN call.args[2] = {"DB_HOST", "DB_PORT"}
    /\ call.args[2]["DB_PORT"] = <<"6","5","4","3">>
    /\ call.ret.raised = "None"
    /\ call.ret.value = [host |-> <<"e">>, port |-> 6543, dbname |-> <<"f">>,
                         user |-> <<"f">>, password |-> <<"f">>]

\* C14: load_db_config raises the GenerationError of missing values whenever
\* one of the five fields is given by neither the environment nor the file's
\* section, also when the port given is no integer; it raises the
\* GenerationError of an invalid port when all five are given and the port is
\* no int literal; it returns a descriptor exactly when all five are given and
\* the port is one.
C14_MissingThenInvalidPort ==
    call.fn = "load_db_config" =>
        LET cfg_file == call.args[1]
            environ == call.args[2]
            absent == {k \in ConfigKeys : ~EnvHas(environ, k) /\ ~FileHas(cfg_file, k)}
            port == IF EnvHas(environ, "port") THEN environ["DB_PORT"]
                    ELSE IF FileHas(cfg_file, "port") THEN cfg_file.section["port"]
                    ELSE <<>>
        IN  /\ absent # {} <=>
                  call.ret = Raise("GenerationError", "Missing database configuration values")
            /\ (absent = {} /\ ~IsIntLiteral(port)) <=>
                  call.ret = Raise("GenerationError", "Invalid port number")
            /\ (absent = {} /\ IsIntLiteral(port)) <=> call.ret.raised = "None"

\* The password is given nowhere and the port is "x": the error is the one of
\* the missing values.
C14_Witness ==
    /\ call.fn = "load_db_config"
    /\ DOMAIN call.args[1].section = ConfigKeys \ {"password"}
    /\ call.args[1].section["port"] = <<"x">>
    /\ call.args[2] = <<>>
    /\ call.ret = Raise("GenerationError", "Missing database configuration values")

\* The templates directory of the run and the skeleton's place in it.
TemplatesDirOf(e) ==
    IF "TEMPLATES_DIR" \in DOMAIN e.environ THEN e.environ["TEMPLATES_DIR"]
    ELSE DEFAULT_TEMPLATES_DIR
SkeletonFileOf(e) ==
    Absolute(PathOf(TemplatesDirOf(e).root,
                    TemplatesDirOf(e).parts \o <<(<<e.page_name, ".skel">>)>>))
TemplateNotFound == "Required template file not found"

\* C15: with a configuration that loads, a run ends with the GenerationError of
\* a template not found iff the skeleton <templatesDir>/<pageName>.skel or the
\* resolved snippet template is absent; when it is raised no connection has
\* been opened, no statement executed and no file written, and no run gets to
\* the connection with a template absent.
C15_TemplateNotFoundBeforeConnection ==
    LET skeleton_absent == SkeletonFileOf(env) \notin DOMAIN env.files
        snippet_absent == Absolute(loc.snippet_template_path) \notin DOMAIN env.files
    IN  /\ (pc = "raised" /\ exc.step # "configure") =>
              (skeleton_absent \/ snippet_absent
                  <=> exc = Exc("GenerationError", TemplateNotFound, "resolve_templates"))
        /\ pc = "returned" => ~skeleton_absent /\ ~snippet_absent
        /\ exc.msg = TemplateNotFound =>
              /\ pc = "raised"
              /\ db = [conn |-> "none", cursor |-> "none"]
              /\ queries = <<>>
              /\ fs = env.files
        /\ pc \in {"connect", "cursor", "fetch_page", "check_page_id", "fetch_snippets",
                    "cursor_exit", "conn_exit", "render", "inject", "write"}
              => ~skeleton_absent /\ ~snippet_absent

\* The skeleton is there, the snippet template is not: the error is raised
\* with no connection made and the old output file as it was.
C15_Witness ==
    /\ pc = "raised"
    /\ exc.msg = TemplateNotFound
    /\ SkeletonFileOf(env) \in DOMAIN env.files
    /\ Absolute(loc.snippet_template_path) \notin DOMAIN env.files
    /\ db.conn = "none"
    /\ Absolute(OutputLocation) \in DOMAIN fs
    /\ fs[Absolute(OutputLocation)] = OldOutput

\* The snippet template reference of the run: the argument, or snippet.html.
SnippetRefOf(e) ==
    IF e.snippet_template_name # NoPath THEN e.snippet_template_name
    ELSE PathOf(FALSE, <<(<<"snippet.html">>)>>)
UnderTemplatesDir(e, ref) ==
    PathOf(TemplatesDirOf(e).root, TemplatesDirOf(e).parts \o ref.parts)

PageNotFound == "No trip_page entry found"
MissingPageId == "trip_page row is missing a 'page_id' column"

\* The page row fetched has a page_id that is not null.
HasPageId(page) == PageIdKey \in DOMAIN page /\ page[PageIdKey].t # "none"

\* C17: the GenerationError of the page not found is raised iff the page
\* statement gave no row, the one of the missing page_id iff it gave a row whose
\* page_id is absent or null; in both cases the snippet statement is never
\* executed and no file is written.  The snippet statement is executed only
\* for a row with a page_id, and page_id 0 is one.
C17_PageNotFoundAndMissingPageId ==
    /\ exc.msg = PageNotFound =>
          /\ exc.cls = "GenerationError"
          /\ loc.page = <<>>
          /\ Len(queries) = 1 /\ queries[1].table = "tlinq.trip_page"
          /\ fs = env.files
          /\ pc \in {"cursor_exit", "conn_exit", "raised"}
    /\ exc.msg = MissingPageId =>
          /\ exc.cls = "GenerationError"
          /\ loc.page # <<>> /\ ~HasPageId(loc.page)
          /\ Len(queries) = 1 /\ queries[1].table = "tlinq.trip_page"
          /\ fs = env.files
          /\ pc \in {"cursor_exit", "conn_exit", "raised"}
    /\ (pc \in {"cursor_exit", "conn_exit", "raised"} /\ Len(queries) = 1
            /\ exc.cls # "OperationalError") =>
          exc.msg = (IF loc.page = <<>> THEN PageNotFound ELSE MissingPageId)
    /\ Len(queries) = 2 =>
          /\ HasPageId(loc.page)
          /\ queries[2].param = loc.page[PageIdKey]
    /\ (loc.page # <<>> /\ HasPageId(loc.page)) =>
          /\ exc.msg # MissingPageId
          /\ pc \notin {"check_page_id", "fetch_snippets"} => Len(queries) = 2

\* The page row has a null page_id: the error is raised after one statement,
\* and nothing is written.
C17_Witness ==
    /\ pc = "raised"
    /\ exc.msg = MissingPageId
    /\ PageIdKey \in DOMAIN loc.page
    /\ loc.page[PageIdKey] = None
    /\ Len(queries) = 1
    /\ db.conn = "closed"
    /\ fs = env.files

\* The template files the first run read are, at the start of the second run,
\* what they were.
SameTemplateFiles ==
    /\ env.files[Absolute(first.skeleton_path)] = first.skeleton
    /\ env.files[Absolute(first.snippet_template_path)] = first.snippet_template

\* The output location is a path at which the run looks for a template: the
\* skeleton, the snippet template reference as given (relative to the working
\* directory), or the reference under the templates directory.
OutputIsTemplatePath ==
    Absolute(OutputLocation) \in
        { SkeletonFileOf(env), Absolute(SnippetRefOf(env)),
          Absolute(UnderTemplatesDir(env, SnippetRefOf(env))) }

PcOrder ==
    << "parse_args", "configure_logging", "load_db_config", "resolve_templates",
       "load_skeleton", "load_snippet_template", "connect", "cursor", "fetch_page",
       "check_page_id", "fetch_snippets", "cursor_exit", "conn_exit", "render", "inject",
       "write", "returned", "raised", "exited" >>
PcPos(p) == CHOOSE i \in 1..Len(PcOrder) : PcOrder[i] = p

\* The step of the pipeline a position belongs to.
StepOf(p) ==
    CASE p = "load_db_config" -> "configure"
      [] p \in {"resolve_templates", "load_skeleton", "load_snippet_template"}
            -> "resolve_templates"
      [] p \in {"connect", "cursor", "fetch_page", "check_page_id", "fetch_snippets",
                "cursor_exit", "conn_exit"} -> "load_data"
      [] p = "render" -> "render"
      [] p = "inject" -> "assemble"
      [] p = "write" -> "persist"
      [] OTHER -> "none"
StepOrder == <<"none", "configure", "resolve_templates", "load_data", "render", "assemble", "persist">>
StepPos(st) == CHOOSE i \in 1..Len(StepOrder) : StepOrder[i] = st

\* C19: within a run the position only moves forward through Configure,
\* Resolve templates, Load data, Render, Assemble, Persist, so each step is
\* executed at most once and in that order; the error of a step that fails is
\* that step's; once a step has failed no later step executes (only the with
\* blocks are left), nothing more is read, fetched or written, and the error
\* is never replaced: with the configuration missing and a template missing,
\* the error is the configuration's.
C19_LinearFailFast ==
    [][ /\ (pc' # pc /\ pc' # "parse_args") =>
              /\ PcPos(pc') > PcPos(pc)
              /\ (StepOf(pc') # "none" /\ StepOf(pc) # "none")
                    => StepPos(StepOf(pc')) \in {StepPos(StepOf(pc)), StepPos(StepOf(pc)) + 1}
        /\ (exc = NoExc /\ exc' # NoExc) => exc'.step = StepOf(pc)
        /\ exc # NoExc =>
              /\ exc' = exc
              /\ pc' \in {"cursor_exit", "conn_exit", "raised"}
              /\ loc' = loc /\ fs' = fs /\ queries' = queries
        /\ (pc' = "raised"
                /\ load_db_config(env.cfg_file, env.environ).raised # "None"
                /\ SkeletonFileOf(env) \notin DOMAIN env.files)
              => exc'.step = "configure"
      ]_vars

\* The configuration is incomplete and the skeleton is absent: the run has
\* raised the configuration's error and resolved no template.
C19_Witness ==
    /\ pc = "raised"
    /\ exc = Exc("GenerationError", "Missing database configuration values", "configure")
    /\ SkeletonFileOf(env) \notin DOMAIN env.files
    /\ loc = NoLocals

====
